---- MODULE Spec2Model ----
(***************************************************************************)
(* Model of pkg/make-release/dist_builder.go: DistBuilder.Build, its eight *)
(* build steps and runParallel.                                            *)
(*                                                                         *)
(* Spec    : one Build of one DistBuilder, with the JS packager running    *)
(*           beside it and the collaborators (file system, compilers, cp,  *)
(*           fetcher, archiver) succeeding or failing nondeterministically.*)
(* SpecRP  : runParallel called directly on every list of at most MaxSteps *)
(*           stub steps, each of which either succeeds or fails.           *)
(* FairSpecRP : SpecRP under weak fairness of every action.                *)
(* SpecStep: buildEncoreCLI or buildNodePlugin alone, on every OS,         *)
(*           architecture and version of StepRequests.                     *)
(* SpecJS  : copyEncoreRuntimeForJS alone, beside the JS packager.         *)
(* SpecTwo : buildNodePlugin of two DistBuilders run concurrently.         *)
(*                                                                         *)
(* An error is a sequence of frames, outermost wrap first; a frame is a    *)
(* tuple holding the message followed by its arguments.  nil is <<>>.      *)
(***************************************************************************)
EXTENDS Integers, Sequences, FiniteSets, TLC

\* ---------------------------------------------------------------- bounds
\* Longest step list handed to runParallel under SpecRP.
MaxSteps == 3
\* Most collaborator calls that fail during one Build under Spec.
MaxFailures == 1

\* ---------------------------------------------------------------- errors
Nil == <<>>

New(msg) == << <<msg>> >>

Newf(msg, arg) == << <<msg, arg>> >>

Wrap(err, msg) == << <<msg>> >> \o err

Wrapf(err, msg, args) == << <<msg>> \o args >> \o err

\* The error a collaborator (os, exec, compiler, fetcher, archiver) reports.
Cause(callee) == New(callee)

\* ---------------------------------------------------------------- inputs
\* encr.dev/internal/version.ChannelFor, on the version strings of Requests.
ChannelFor(v) ==
    CASE v = "v1.2.3"          -> "GA"
      [] v = "v1.2.3-beta.4"   -> "Beta"
      [] v = "nightly-20240101" -> "Nightly"
      [] v = "devel-abc"       -> "DevBuild"
      [] OTHER                 -> "unknown"

\* The DistBuilder values Build is run on.
Requests ==
    { [OS |-> "linux",   Arch |-> "amd64", Version |-> "v1.2.3"],
      [OS |-> "plan9",   Arch |-> "arm64", Version |-> "v1.2.3-beta.4"] }

\* Paths below d.DistBuildDir, as their components; <<>> is the directory.
StaleFile == <<"stale">>

\* The directories Build creates, in order, and the label of each failure.
PrepDirs == << <<>>, <<"bin">>, <<"runtimes">>, <<"runtimes", "go">>, <<"runtimes", "js">> >>

PrepLabels == << "create target dir", "create bin dir", "create runtimes/go dir",
                 "create runtimes/go dir", "create runtimes/js dir" >>

\* The steps Build hands to runParallel, in order.
BuildSteps == << "buildEncoreCLI", "buildTSBundler", "buildGitHook", "buildTSParser",
                 "buildNodePlugin", "copyEncoreRuntimeForGo", "copyEncoreRuntimeForJS",
                 "downloadEncoreGo" >>

StubSteps == {"succeed", "fail"}

Collaborators == {"RemoveAll", "MkdirAll", "CompileGoBinary", "CompileRustBinary",
                  "WriteFile", "cpGo", "cpJS", "downloadLatestGithubRelease",
                  "extractArchive", "TarGzip"}

Main == 0 - 1

VARIABLES
    d,          \* the DistBuilder: OS, Arch, Version
    jsBuilder,  \* the JSPackager handle: compileCompleted (closed), compileFailed
    bpc,        \* where Build is
    mk,         \* index into PrepDirs of the next MkdirAll
    buildRet,   \* what Build returned (meaningful once bpc = "returned")
    staging,    \* the paths that exist under d.DistBuildDir
    versionCjs, \* the version written in runtimes/jscore/api/version.cjs
    tarFile,    \* whether d.ArtifactsTarFile has been produced
    calls,      \* how many times each collaborator has been invoked
    failed,     \* the collaborator calls that have failed: << callee, call site >>
    rpc,        \* where runParallel's caller goroutine is
    functions,  \* runParallel's argument
    next,       \* index of the next function the loop launches
    wg,         \* the WaitGroup counter
    firstErr,   \* runParallel's firstErr
    mu,         \* holder of runParallel's mutex: 0 free, Main, or a unit's index
    rpRet,      \* what runParallel returned (meaningful once rpc = "returned")
    gpc,        \* where each launched unit is
    gerr,       \* what each unit's f() returned
    ran,        \* how many times each step has run to completion
    compiledBinaryName, \* buildNodePlugin's local of that name, "" until resolved
    peer,       \* a DistBuilder built concurrently, and where its buildNodePlugin is
    stampWriters \* the << OS, Arch >> of the builds that have written version.cjs

vars == << d, jsBuilder, bpc, mk, buildRet, staging, versionCjs, tarFile, calls, failed,
           rpc, functions, next, wg, firstErr, mu, rpRet, gpc, gerr, ran,
           compiledBinaryName, peer, stampWriters >>

buildVars == << bpc, mk, buildRet >>

fsVars == << staging, versionCjs, tarFile >>

rpVars == << rpc, functions, next, wg, firstErr, mu, rpRet >>

unitVars == << gpc, gerr, ran >>

\* ---------------------------------------------------------------- helpers
\* Whether a collaborator call succeeds: it may fail while the budget lasts.
Outcomes == IF Cardinality(failed) < MaxFailures THEN {TRUE, FALSE} ELSE {TRUE}

\* A collaborator has been invoked from a call site (the index of the unit,
\* the index of the directory, 0 otherwise) and has succeeded or failed.
Invoke(callee, site, ok) ==
    /\ calls' = [calls EXCEPT ![callee] = @ + 1]
    /\ failed' = IF ok THEN failed ELSE failed \cup {<< callee, site >>}

Index(name) == CHOOSE i \in 1..Len(BuildSteps) : BuildSteps[i] = name

\* ---------------------------------------------------------------- Build
\* Mutant of AfterPrep: the errors of the preparation are not checked.
AfterPrepIgnoreErr(ok, k) ==
    IF k < Len(PrepDirs) THEN "mkdir" ELSE "runParallel"

\* Mutant of AfterPrep: the error of the last MkdirAll is not checked.
AfterPrepLastUnchecked(ok, k) ==
    IF ~ok /\ k < Len(PrepDirs) THEN "returned"
    ELSE IF k < Len(PrepDirs) THEN "mkdir" ELSE "runParallel"

\* Where Build goes after preparation operation k (0 is the RemoveAll, k > 0
\* the k-th MkdirAll) has succeeded or failed.
AfterPrep(ok, k) ==
    IF ~ok THEN "returned"
    ELSE IF k < Len(PrepDirs) THEN "mkdir" ELSE "runParallel"

\* os.RemoveAll(d.DistBuildDir)
BuildRemoveAll ==
    /\ bpc = "remove"
    /\ \E ok \in Outcomes :
        /\ Invoke("RemoveAll", 0, ok)
        /\ staging' = IF ok THEN {} ELSE staging
        /\ bpc' = AfterPrep(ok, 0)
        /\ buildRet' = IF ok THEN buildRet
                       ELSE Wrap(Cause("RemoveAll"), "remove target dir")
    /\ UNCHANGED << d, compiledBinaryName, peer, stampWriters, jsBuilder, mk, versionCjs, tarFile, rpVars, unitVars >>

\* os.MkdirAll of the mk-th directory of the else-if chain
BuildMkdirAll ==
    /\ bpc = "mkdir"
    /\ \E ok \in Outcomes :
        /\ Invoke("MkdirAll", mk, ok)
        /\ staging' = IF ok THEN staging \cup {PrepDirs[mk]} ELSE staging
        /\ bpc' = AfterPrep(ok, mk)
        /\ mk' = IF ok /\ mk < Len(PrepDirs) THEN mk + 1 ELSE mk
        /\ buildRet' = IF ok THEN buildRet
                       ELSE Wrap(Cause("MkdirAll"), PrepLabels[mk])
    /\ UNCHANGED << d, compiledBinaryName, peer, stampWriters, jsBuilder, versionCjs, tarFile, rpVars, unitVars >>

\* err := runParallel(d.buildEncoreCLI, ...): the call
BuildRunParallel ==
    /\ bpc = "runParallel"
    /\ bpc' = "join"
    /\ functions' = BuildSteps
    /\ rpc' = "entry"
    /\ UNCHANGED << d, compiledBinaryName, peer, stampWriters, jsBuilder, mk, buildRet, fsVars, calls, failed,
                    next, wg, firstErr, mu, rpRet, unitVars >>

\* Mutant of AfterRunParallel: the error of runParallel is not checked.
AfterRunParallelUnchecked(err) == "archive"

\* Where Build goes once runParallel has returned err.
AfterRunParallel(err) == IF err # Nil THEN "returned" ELSE "archive"

\* Mutant of BuildJoin: a failed build removes its staging directory.
BuildJoinCleanup ==
    /\ bpc = "join"
    /\ rpc = "returned"
    /\ bpc' = AfterRunParallel(rpRet)
    /\ buildRet' = IF rpRet # Nil
                   THEN Wrapf(rpRet, " os: %s, arch: %s", << d.OS, d.Arch >>)
                   ELSE buildRet
    /\ staging' = IF rpRet # Nil THEN {} ELSE staging
    /\ UNCHANGED << d, compiledBinaryName, peer, stampWriters, jsBuilder, mk,
                    versionCjs, tarFile, calls, failed, rpVars, unitVars >>

\* err := runParallel(...): the return, and the check of err
BuildJoin ==
    /\ bpc = "join"
    /\ rpc = "returned"
    /\ bpc' = AfterRunParallel(rpRet)
    /\ buildRet' = IF rpRet # Nil
                   THEN Wrapf(rpRet, " os: %s, arch: %s", << d.OS, d.Arch >>)
                   ELSE buildRet
    /\ UNCHANGED << d, compiledBinaryName, peer, stampWriters, jsBuilder, mk, fsVars, calls, failed, rpVars, unitVars >>

\* Mutant of TarGzipResult: the error of TarGzip is swallowed.
TarGzipSwallowed(ok, os, arch) == Nil

\* What Build returns after TarGzip.
TarGzipResult(ok, os, arch) ==
    IF ok THEN Nil ELSE Wrapf(Cause("TarGzip"), " os: %s, arch: %s", << os, arch >>)

\* err = TarGzip(d.DistBuildDir, d.ArtifactsTarFile)
BuildTarGzip ==
    /\ bpc = "archive"
    /\ \E ok \in Outcomes :
        /\ Invoke("TarGzip", 0, ok)
        /\ tarFile' = IF ok THEN TRUE ELSE tarFile
        /\ buildRet' = TarGzipResult(ok, d.OS, d.Arch)
    /\ bpc' = "returned"
    /\ UNCHANGED << d, compiledBinaryName, peer, stampWriters, jsBuilder, mk, staging, versionCjs, rpVars, unitVars >>

\* ---------------------------------------------------------------- runParallel
\* Mutant of WgAdd: the counter is one short of the number of units.
WgAddShort(n) == n - 1

\* wg.Add(len(functions))
WgAdd(n) == n

\* wg.Add(len(functions)); var firstErr error; var mu sync.Mutex
RPAdd ==
    /\ rpc = "entry"
    /\ wg' = WgAdd(Len(functions))
    /\ firstErr' = Nil
    /\ mu' = 0
    /\ next' = 1
    /\ gpc' = [i \in 1..Len(functions) |-> "unlaunched"]
    /\ gerr' = [i \in 1..Len(functions) |-> Nil]
    /\ ran' = [i \in 1..Len(functions) |-> 0]
    /\ rpc' = IF Len(functions) = 0 THEN "wait" ELSE "launch"
    /\ UNCHANGED << d, compiledBinaryName, peer, stampWriters, jsBuilder, buildVars, fsVars, calls, failed, functions, rpRet >>

\* one iteration of the loop: go func() { ... }()
RPLaunch ==
    /\ rpc = "launch"
    /\ gpc' = [gpc EXCEPT ![next] = "call"]
    /\ next' = next + 1
    /\ rpc' = IF next = Len(functions) THEN "wait" ELSE "launch"
    /\ UNCHANGED << d, compiledBinaryName, peer, stampWriters, jsBuilder, buildVars, fsVars, calls, failed,
                    functions, wg, firstErr, mu, rpRet, gerr, ran >>

\* Mutant of WaitReady: the wait also ends as soon as an error is recorded.
WaitReadyOrErr(w, fe) == w = 0 \/ fe # Nil

\* When wg.Wait() returns.
WaitReady(w, fe) == w = 0

\* wg.Wait()
RPWait ==
    /\ rpc = "wait"
    /\ WaitReady(wg, firstErr)
    /\ rpc' = "lock"
    /\ UNCHANGED << d, compiledBinaryName, peer, stampWriters, jsBuilder, buildVars, fsVars, calls, failed,
                    functions, next, wg, firstErr, mu, rpRet, unitVars >>

\* mu.Lock() after the wait
RPLock ==
    /\ rpc = "lock"
    /\ mu = 0
    /\ mu' = Main
    /\ rpc' = "locked"
    /\ UNCHANGED << d, compiledBinaryName, peer, stampWriters, jsBuilder, buildVars, fsVars, calls, failed,
                    functions, next, wg, firstErr, rpRet, unitVars >>

\* return firstErr, with the deferred mu.Unlock()
RPReturn ==
    /\ rpc = "locked"
    /\ rpRet' = firstErr
    /\ mu' = 0
    /\ rpc' = "returned"
    /\ UNCHANGED << d, compiledBinaryName, peer, stampWriters, jsBuilder, buildVars, fsVars, calls, failed,
                    functions, next, wg, firstErr, unitVars >>

\* Mutant of UnitReturn: wg.Done() is not deferred but called in the error
\* branch only, so a unit whose step succeeded never signals.
UnitReturnNoDone(i, err) ==
    /\ ran' = [ran EXCEPT ![i] = @ + 1]
    /\ gerr' = [gerr EXCEPT ![i] = err]
    /\ gpc' = [gpc EXCEPT ![i] = IF err = Nil THEN "done" ELSE "failed"]
    /\ wg' = wg

\* The unit of step i once f() has returned err: with nil the deferred
\* wg.Done() runs at once, otherwise the unit goes on to mu.Lock().
UnitReturn(i, err) ==
    /\ ran' = [ran EXCEPT ![i] = @ + 1]
    /\ gerr' = [gerr EXCEPT ![i] = err]
    /\ gpc' = [gpc EXCEPT ![i] = IF err = Nil THEN "done" ELSE "failed"]
    /\ wg' = IF err = Nil THEN wg - 1 ELSE wg

\* Mutant of UnitLock: the unit does not wait for the mutex to be free.
UnitLockNoWait ==
    \E i \in DOMAIN gpc :
        /\ gpc[i] = "failed"
        /\ mu' = i
        /\ gpc' = [gpc EXCEPT ![i] = "locked"]
        /\ UNCHANGED << d, compiledBinaryName, peer, stampWriters, jsBuilder, buildVars,
                        fsVars, calls, failed,
                        rpc, functions, next, wg, firstErr, rpRet, gerr, ran >>

\* mu.Lock() in a unit whose step failed
UnitLock ==
    \E i \in DOMAIN gpc :
        /\ gpc[i] = "failed"
        /\ mu = 0
        /\ mu' = i
        /\ gpc' = [gpc EXCEPT ![i] = "locked"]
        /\ UNCHANGED << d, compiledBinaryName, peer, stampWriters, jsBuilder, buildVars, fsVars, calls, failed,
                        rpc, functions, next, wg, firstErr, rpRet, gerr, ran >>

\* Mutant of RecordFirstErr: the last error recorded wins.
RecordOverwrite(fe, err) == err

\* Mutant of RecordFirstErr: the nil test is inverted.
RecordInverted(fe, err) == IF fe # Nil THEN err ELSE fe

\* if firstErr == nil { firstErr = err }
RecordFirstErr(fe, err) == IF fe = Nil THEN err ELSE fe

UnitRecord ==
    \E i \in DOMAIN gpc :
        /\ gpc[i] = "locked"
        /\ mu = i
        /\ firstErr' = RecordFirstErr(firstErr, gerr[i])
        /\ gpc' = [gpc EXCEPT ![i] = "recorded"]
        /\ UNCHANGED << d, compiledBinaryName, peer, stampWriters, jsBuilder, buildVars, fsVars, calls, failed,
                        rpc, functions, next, wg, mu, rpRet, gerr, ran >>

\* the deferred mu.Unlock() and wg.Done() of a unit whose step failed
UnitUnlockDone ==
    \E i \in DOMAIN gpc :
        /\ gpc[i] = "recorded"
        /\ mu = i
        /\ mu' = 0
        /\ wg' = wg - 1
        /\ gpc' = [gpc EXCEPT ![i] = "done"]
        /\ UNCHANGED << d, compiledBinaryName, peer, stampWriters, jsBuilder, buildVars, fsVars, calls, failed,
                        rpc, functions, next, firstErr, rpRet, gerr, ran >>

\* The error the failing stub step at position i returns.
StubErr(i) == Newf("step failed", ToString(i))

\* What the stub step at position i returns.
StubResult(kind, i) == IF kind = "fail" THEN StubErr(i) ELSE Nil

\* a stub step runs: f() of a unit under SpecRP
StubStepAt(i) ==
    /\ gpc[i] = "call"
    /\ functions[i] \in StubSteps
    /\ UnitReturn(i, StubResult(functions[i], i))
    /\ UNCHANGED << d, compiledBinaryName, peer, stampWriters, jsBuilder, buildVars, fsVars, calls, failed,
                    rpc, functions, next, firstErr, mu, rpRet >>

StubStep == \E i \in DOMAIN gpc : StubStepAt(i)

\* ---------------------------------------------------------------- build steps
\* The unit of step i moves on inside f(), which has not returned yet.
UnitGoto(i, pos) ==
    /\ gpc' = [gpc EXCEPT ![i] = pos]
    /\ UNCHANGED << gerr, ran, wg >>

\* Step name is at position i of the list and its unit is at pos.
At(i, name, pos) == functions[i] = name /\ gpc[i] = pos

KnownChannels == {"GA", "Beta", "Nightly", "DevBuild"}

\* Mutant of VersionSuffix: the suffixes of Beta and DevBuild are exchanged.
VersionSuffixSwapped(channel) ==
    CASE channel = "GA"       -> ""
      [] channel = "Beta"     -> "-develop"
      [] channel = "Nightly"  -> "-nightly"
      [] channel = "DevBuild" -> "-beta"

\* the switch on version.ChannelFor(d.Version) in buildEncoreCLI
VersionSuffix(channel) ==
    CASE channel = "GA"       -> ""
      [] channel = "Beta"     -> "-beta"
      [] channel = "Nightly"  -> "-nightly"
      [] channel = "DevBuild" -> "-develop"

\* d.buildEncoreCLI
buildEncoreCLI ==
    \E i \in DOMAIN gpc :
        /\ At(i, "buildEncoreCLI", "call")
        /\ IF ChannelFor(d.Version) \notin KnownChannels
           THEN /\ UnitReturn(i, Newf("unknown version channel for %s", d.Version))
                /\ UNCHANGED << staging, calls, failed >>
           ELSE \E ok \in Outcomes :
                /\ Invoke("CompileGoBinary", i, ok)
                /\ staging' = IF ok
                              THEN staging \cup
                                   {<< "bin", "encore", VersionSuffix(ChannelFor(d.Version)) >>}
                              ELSE staging
                /\ UnitReturn(i, IF ok THEN Nil
                                 ELSE Wrap(Cause("CompileGoBinary"), "compile encore"))
        /\ UNCHANGED << d, compiledBinaryName, peer, stampWriters, jsBuilder, buildVars, versionCjs, tarFile,
                        rpc, functions, next, firstErr, mu, rpRet >>

\* A step that is one compiler call writing out, its failure wrapped in label.
CompileStep(name, compiler, out, label) ==
    \E i \in DOMAIN gpc :
        /\ At(i, name, "call")
        /\ \E ok \in Outcomes :
            /\ Invoke(compiler, i, ok)
            /\ staging' = IF ok THEN staging \cup {out} ELSE staging
            /\ UnitReturn(i, IF ok THEN Nil ELSE Wrap(Cause(compiler), label))
        /\ UNCHANGED << d, compiledBinaryName, peer, stampWriters, jsBuilder, buildVars, versionCjs, tarFile,
                        rpc, functions, next, firstErr, mu, rpRet >>

\* d.buildGitHook
buildGitHook ==
    CompileStep("buildGitHook", "CompileGoBinary",
                << "bin", "git-remote-encore" >>, "compile git-remote-encore")

\* d.buildTSBundler
buildTSBundler ==
    CompileStep("buildTSBundler", "CompileGoBinary",
                << "bin", "tsbundler-encore" >>, "compile tsbundler")

\* d.buildTSParser
buildTSParser ==
    CompileStep("buildTSParser", "CompileRustBinary",
                << "bin", "tsparser-encore" >>, "compile ts-parser")

KnownOS == {"darwin", "linux", "windows"}

\* Mutant of CompiledBinaryName: every OS but darwin gets the .so name.
CompiledBinaryNameUnix(os) ==
    CASE os = "darwin"  -> "libencore_js_runtime.dylib"
      [] OTHER          -> "libencore_js_runtime.so"

\* the switch on d.OS in buildNodePlugin
CompiledBinaryName(os) ==
    CASE os = "darwin"  -> "libencore_js_runtime.dylib"
      [] os = "linux"   -> "libencore_js_runtime.so"
      [] os = "windows" -> "encore_js_runtime.dll"

\* Mutant of buildNodePluginPatch: the error of os.WriteFile is not checked.
buildNodePluginPatchUnchecked ==
    \E i \in DOMAIN gpc :
        /\ At(i, "buildNodePlugin", "call")
        /\ IF d.OS \notin KnownOS
           THEN /\ UnitReturn(i, Wrap(Newf("unknown OS: %s", d.OS), "compile node plugin"))
                /\ UNCHANGED << versionCjs, calls, failed, compiledBinaryName, stampWriters >>
           ELSE \E ok \in Outcomes :
                /\ compiledBinaryName' = CompiledBinaryName(d.OS)
                /\ Invoke("WriteFile", i, ok)
                /\ versionCjs' = IF ok THEN d.Version ELSE versionCjs
                /\ stampWriters' = IF ok THEN stampWriters \cup {<< d.OS, d.Arch >>}
                                   ELSE stampWriters
                /\ UnitGoto(i, "compile")
        /\ UNCHANGED << d, peer, jsBuilder, buildVars, staging, tarFile,
                        rpc, functions, next, firstErr, mu, rpRet >>

\* d.buildNodePlugin, up to and including the os.WriteFile of version.cjs
buildNodePluginPatch ==
    \E i \in DOMAIN gpc :
        /\ At(i, "buildNodePlugin", "call")
        /\ IF d.OS \notin KnownOS
           THEN /\ UnitReturn(i, Wrap(Newf("unknown OS: %s", d.OS), "compile node plugin"))
                /\ UNCHANGED << versionCjs, calls, failed, compiledBinaryName, stampWriters >>
           ELSE \E ok \in Outcomes :
                /\ compiledBinaryName' = CompiledBinaryName(d.OS)
                /\ Invoke("WriteFile", i, ok)
                /\ versionCjs' = IF ok THEN d.Version ELSE versionCjs
                /\ stampWriters' = IF ok THEN stampWriters \cup {<< d.OS, d.Arch >>}
                                   ELSE stampWriters
                /\ IF ok THEN UnitGoto(i, "compile")
                   ELSE UnitReturn(i, Wrap(Cause("WriteFile"), "write patch version.cjs"))
        /\ UNCHANGED << d, peer, jsBuilder, buildVars, staging, tarFile,
                        rpc, functions, next, firstErr, mu, rpRet >>

\* d.buildNodePlugin, the CompileRustBinary call
buildNodePluginCompile ==
    \E i \in DOMAIN gpc :
        /\ At(i, "buildNodePlugin", "compile")
        /\ \E ok \in Outcomes :
            /\ Invoke("CompileRustBinary", i, ok)
            /\ staging' = IF ok THEN staging \cup {<< "bin", "encore-runtime.node" >>}
                          ELSE staging
            /\ UnitReturn(i, IF ok THEN Nil
                             ELSE Wrap(Cause("CompileRustBinary"), "compile node plugin"))
        /\ UNCHANGED << d, compiledBinaryName, peer, stampWriters, jsBuilder, buildVars, versionCjs, tarFile,
                        rpc, functions, next, firstErr, mu, rpRet >>

\* d.downloadEncoreGo, the downloadLatestGithubRelease call
downloadEncoreGoFetch ==
    \E i \in DOMAIN gpc :
        /\ At(i, "downloadEncoreGo", "call")
        /\ \E ok \in Outcomes :
            /\ Invoke("downloadLatestGithubRelease", i, ok)
            /\ IF ok THEN UnitGoto(i, "extract")
               ELSE UnitReturn(i, Wrap(Cause("downloadLatestGithubRelease"),
                                       "download encore-go"))
        /\ UNCHANGED << d, compiledBinaryName, peer, stampWriters, jsBuilder, buildVars, fsVars,
                        rpc, functions, next, firstErr, mu, rpRet >>

\* d.downloadEncoreGo, the extractArchive call
downloadEncoreGoExtract ==
    \E i \in DOMAIN gpc :
        /\ At(i, "downloadEncoreGo", "extract")
        /\ \E ok \in Outcomes :
            /\ Invoke("extractArchive", i, ok)
            /\ staging' = IF ok THEN staging \cup {<< "encore-go" >>} ELSE staging
            /\ UnitReturn(i, IF ok THEN Nil
                             ELSE Wrap(Cause("extractArchive"), "extract encore-go"))
        /\ UNCHANGED << d, compiledBinaryName, peer, stampWriters, jsBuilder, buildVars, versionCjs, tarFile,
                        rpc, functions, next, firstErr, mu, rpRet >>

\* d.copyEncoreRuntimeForGo
copyEncoreRuntimeForGo ==
    \E i \in DOMAIN gpc :
        /\ At(i, "copyEncoreRuntimeForGo", "call")
        /\ \E ok \in Outcomes :
            /\ Invoke("cpGo", i, ok)
            /\ staging' = IF ok THEN staging \cup {<< "runtimes", "go", "." >>} ELSE staging
            /\ UnitReturn(i, IF ok THEN Nil
                             ELSE Wrapf(Cause("cpGo"), "cp go runtime: %s", << "out" >>))
        /\ UNCHANGED << d, compiledBinaryName, peer, stampWriters, jsBuilder, buildVars, versionCjs, tarFile,
                        rpc, functions, next, firstErr, mu, rpRet >>

\* Mutant of Recv: the receive does not block.
RecvNonBlocking(completed) == TRUE

\* When a receive from the channel compileCompleted returns: once it is closed.
Recv(completed) == completed

\* d.copyEncoreRuntimeForJS: <-d.jsBuilder.compileCompleted
copyEncoreRuntimeForJSWait ==
    \E i \in DOMAIN gpc :
        /\ At(i, "copyEncoreRuntimeForJS", "call")
        /\ Recv(jsBuilder.compileCompleted)
        /\ UnitGoto(i, "load")
        /\ UNCHANGED << d, compiledBinaryName, peer, stampWriters, jsBuilder, buildVars, fsVars, calls, failed,
                        rpc, functions, next, firstErr, mu, rpRet >>

\* Mutant of AfterLoad: the flag is ignored.
AfterLoadIgnoreFlag(flag) == Nil

\* Mutant of AfterLoad: the test of the flag is inverted.
AfterLoadInverted(flag) == IF ~flag THEN New("js build failed") ELSE Nil

\* What copyEncoreRuntimeForJS does with the flag it loaded: the error it
\* returns at once, or nil to go on to the copy.
AfterLoad(flag) == IF flag THEN New("js build failed") ELSE Nil

\* d.copyEncoreRuntimeForJS: if d.jsBuilder.compileFailed.Load() { return ... }
copyEncoreRuntimeForJSLoad ==
    \E i \in DOMAIN gpc :
        /\ At(i, "copyEncoreRuntimeForJS", "load")
        /\ IF AfterLoad(jsBuilder.compileFailed) # Nil
           THEN UnitReturn(i, AfterLoad(jsBuilder.compileFailed))
           ELSE UnitGoto(i, "cp")
        /\ UNCHANGED << d, compiledBinaryName, peer, stampWriters, jsBuilder, buildVars, fsVars, calls, failed,
                        rpc, functions, next, firstErr, mu, rpRet >>

\* d.copyEncoreRuntimeForJS: the cp -r of d.jsBuilder.DistFolder
copyEncoreRuntimeForJSCopy ==
    \E i \in DOMAIN gpc :
        /\ At(i, "copyEncoreRuntimeForJS", "cp")
        /\ \E ok \in Outcomes :
            /\ Invoke("cpJS", i, ok)
            /\ staging' = IF ok THEN staging \cup {<< "runtimes", "js", "." >>} ELSE staging
            /\ UnitReturn(i, IF ok THEN Nil
                             ELSE Wrapf(Cause("cpJS"), "cp js runtime: %s", << "out" >>))
        /\ UNCHANGED << d, compiledBinaryName, peer, stampWriters, jsBuilder, buildVars, versionCjs, tarFile,
                        rpc, functions, next, firstErr, mu, rpRet >>

\* ---------------------------------------------------------------- JS packager
\* The producer sets its failure flag, before it signals.
JSPackagerFail ==
    /\ ~jsBuilder.compileCompleted
    /\ ~jsBuilder.compileFailed
    /\ jsBuilder' = [jsBuilder EXCEPT !.compileFailed = TRUE]
    /\ UNCHANGED << d, compiledBinaryName, peer, stampWriters, buildVars, fsVars, calls, failed, rpVars, unitVars >>

\* The producer closes compileCompleted.
JSPackagerComplete ==
    /\ ~jsBuilder.compileCompleted
    /\ jsBuilder' = [jsBuilder EXCEPT !.compileCompleted = TRUE]
    /\ UNCHANGED << d, compiledBinaryName, peer, stampWriters, buildVars, fsVars, calls, failed, rpVars, unitVars >>

\* ---------------------------------------------------------------- specifications
\* No DistBuilder is built concurrently.
NoPeer == [OS |-> "", Arch |-> "", Version |-> "", pc |-> "absent"]

InitCommon ==
    /\ compiledBinaryName = ""
    /\ stampWriters = {}
    /\ jsBuilder = [compileCompleted |-> FALSE, compileFailed |-> FALSE]
    /\ mk = 1
    /\ buildRet = Nil
    /\ versionCjs = "checked-in"
    /\ tarFile = FALSE
    /\ calls = [c \in Collaborators |-> 0]
    /\ failed = {}
    /\ next = 1
    /\ wg = 0
    /\ firstErr = Nil
    /\ mu = 0
    /\ rpRet = Nil
    /\ gpc = << >>
    /\ gerr = << >>
    /\ ran = << >>

\* Build is called on a DistBuilder; the staging directory may be left over
\* from an earlier build.
Init ==
    /\ InitCommon
    /\ d \in Requests
    /\ peer = NoPeer
    /\ staging \in { {}, { << >>, StaleFile } }
    /\ bpc = "remove"
    /\ rpc = "idle"
    /\ functions = << >>

RunParallel ==
    \/ RPAdd
    \/ RPLaunch
    \/ RPWait
    \/ RPLock
    \/ RPReturn
    \/ UnitLock
    \/ UnitRecord
    \/ UnitUnlockDone

Next ==
    \/ BuildRemoveAll
    \/ BuildMkdirAll
    \/ BuildRunParallel
    \/ BuildJoin
    \/ BuildTarGzip
    \/ RunParallel
    \/ buildEncoreCLI
    \/ buildTSBundler
    \/ buildGitHook
    \/ buildTSParser
    \/ buildNodePluginPatch
    \/ buildNodePluginCompile
    \/ copyEncoreRuntimeForGo
    \/ copyEncoreRuntimeForJSWait
    \/ copyEncoreRuntimeForJSLoad
    \/ copyEncoreRuntimeForJSCopy
    \/ downloadEncoreGoFetch
    \/ downloadEncoreGoExtract
    \/ JSPackagerFail
    \/ JSPackagerComplete

Spec == Init /\ [][Next]_vars

\* runParallel is called on a list of stub steps.
InitRP ==
    /\ InitCommon
    /\ d = [OS |-> "linux", Arch |-> "amd64", Version |-> "v1.2.3"]
    /\ peer = NoPeer
    /\ staging = {}
    /\ bpc = "harness"
    /\ rpc = "entry"
    /\ functions \in UNION { [1..n -> StubSteps] : n \in 0..MaxSteps }

NextRP ==
    \/ RunParallel
    \/ StubStep

SpecRP == InitRP /\ [][NextRP]_vars

\* runParallel on stub steps under fair scheduling: the caller and every unit
\* that can take a step eventually takes one, and every stub step returns.
FairSpecRP ==
    /\ InitRP
    /\ [][NextRP]_vars
    /\ WF_vars(RPAdd)
    /\ WF_vars(RPLaunch)
    /\ WF_vars(RPWait)
    /\ WF_vars(RPLock)
    /\ WF_vars(RPReturn)
    /\ WF_vars(StubStep)
    /\ WF_vars(UnitLock)
    /\ WF_vars(UnitRecord)
    /\ WF_vars(UnitUnlockDone)

\* One build step is run, through runParallel, on every DistBuilder of
\* StepRequests, in a staging directory that has been prepared.
AllOS == {"darwin", "linux", "windows", "plan9"}

Archs == {"amd64", "arm64"}

Versions == {"v1.2.3", "v1.2.3-beta.4", "nightly-20240101", "devel-abc", "1.2.3"}

StepRequests == [OS : AllOS, Arch : Archs, Version : Versions]

InitStep ==
    /\ InitCommon
    /\ d \in StepRequests
    /\ peer = NoPeer
    /\ staging = { PrepDirs[k] : k \in 1..Len(PrepDirs) }
    /\ bpc = "harness"
    /\ rpc = "entry"
    /\ functions \in { << "buildEncoreCLI" >>, << "buildNodePlugin" >> }

NextStep ==
    \/ RunParallel
    \/ buildEncoreCLI
    \/ buildNodePluginPatch
    \/ buildNodePluginCompile

SpecStep == InitStep /\ [][NextStep]_vars

\* copyEncoreRuntimeForJS is run, through runParallel, beside the packager.
InitJS ==
    /\ InitCommon
    /\ d \in StepRequests
    /\ peer = NoPeer
    /\ staging = { PrepDirs[k] : k \in 1..Len(PrepDirs) }
    /\ bpc = "harness"
    /\ rpc = "entry"
    /\ functions = << "copyEncoreRuntimeForJS" >>

NextJS ==
    \/ RunParallel
    \/ copyEncoreRuntimeForJSWait
    \/ copyEncoreRuntimeForJSLoad
    \/ copyEncoreRuntimeForJSCopy
    \/ JSPackagerFail
    \/ JSPackagerComplete

SpecJS == InitJS /\ [][NextJS]_vars

\* ---------------------------------------------------------------- two builds
\* buildNodePlugin of the concurrent DistBuilder, up to the os.WriteFile: the
\* path of version.cjs is relative to the working directory both share.
peerNodePluginPatch ==
    /\ peer.pc = "call"
    /\ IF peer.OS \notin KnownOS
       THEN /\ peer' = [peer EXCEPT !.pc = "done"]
            /\ UNCHANGED << versionCjs, calls, failed, stampWriters >>
       ELSE \E ok \in Outcomes :
            /\ Invoke("WriteFile", 0, ok)
            /\ versionCjs' = IF ok THEN peer.Version ELSE versionCjs
            /\ stampWriters' = IF ok THEN stampWriters \cup {<< peer.OS, peer.Arch >>}
                               ELSE stampWriters
            /\ peer' = [peer EXCEPT !.pc = IF ok THEN "compile" ELSE "done"]
    /\ UNCHANGED << d, compiledBinaryName, jsBuilder, buildVars, staging, tarFile,
                    rpVars, unitVars >>

\* buildNodePlugin of the concurrent DistBuilder, the CompileRustBinary call;
\* its output goes to its own staging directory.
peerNodePluginCompile ==
    /\ peer.pc = "compile"
    /\ \E ok \in Outcomes : Invoke("CompileRustBinary", 0, ok)
    /\ peer' = [peer EXCEPT !.pc = "done"]
    /\ UNCHANGED << d, compiledBinaryName, stampWriters, jsBuilder, buildVars, fsVars,
                    rpVars, unitVars >>

\* The DistBuilders two concurrent builds are run on.
TwoRequests == { r \in StepRequests : r.OS \in KnownOS /\ r.Version \in {"v1.2.3", "devel-abc"} }

\* buildNodePlugin of two DistBuilders with different (OS, Arch) runs
\* concurrently, as make-release runs them.
InitTwo ==
    /\ InitCommon
    /\ d \in TwoRequests
    /\ peer \in { [OS |-> r.OS, Arch |-> r.Arch, Version |-> r.Version, pc |-> "call"] :
                    r \in { q \in TwoRequests : << q.OS, q.Arch >> # << d.OS, d.Arch >> } }
    /\ staging = { PrepDirs[k] : k \in 1..Len(PrepDirs) }
    /\ bpc = "harness"
    /\ rpc = "entry"
    /\ functions = << "buildNodePlugin" >>

NextTwo ==
    \/ RunParallel
    \/ buildNodePluginPatch
    \/ buildNodePluginCompile
    \/ peerNodePluginPatch
    \/ peerNodePluginCompile

SpecTwo == InitTwo /\ [][NextTwo]_vars

\* ---------------------------------------------------------------- properties
Units == DOMAIN gpc

\* The wait of runParallel is over.
Joined == rpc \in {"lock", "locked", "returned"}

\* The unit of step i has run f() and signalled the wait group.
Finished(i) == i \in Units /\ gpc[i] = "done" /\ ran[i] = 1

\* The positions of a unit that is inside f().
InStep == {"call", "load", "cp", "compile", "extract"}

J == Index("copyEncoreRuntimeForJS")

JSFiles == << "runtimes", "js", "." >>

OsArch == << " os: %s, arch: %s", d.OS, d.Arch >>

\* The collaborators the build steps call.
StepCollaborators == {"CompileGoBinary", "CompileRustBinary", "WriteFile", "cpGo", "cpJS",
                      "downloadLatestGithubRelease", "extractArchive"}

\* The staging directory has been removed and the five directories created.
Prepared ==
    /\ calls["RemoveAll"] = 1
    /\ calls["MkdirAll"] = Len(PrepDirs)
    /\ StaleFile \notin staging
    /\ \A k \in 1..Len(PrepDirs) : PrepDirs[k] \in staging

\* C1: runParallel is a strict join barrier without cancellation: its wait
\* ends, and it returns, only when every step of the list has been launched,
\* has run once and has signalled the wait group; a step that has been
\* launched can always run, and the loop can always launch the next step,
\* whatever errors other steps have returned.
C1_JoinBarrier ==
    /\ Joined => /\ Units = 1..Len(functions)
                 /\ \A i \in Units : Finished(i)
    /\ \A i \in Units : gpc[i] = "call" => ENABLED StubStepAt(i)
    /\ rpc = "launch" => ENABLED RPLaunch

\* C1 witness: runParallel has returned, one step failed and a step launched
\* after it ran to completion.
C1_Witness ==
    /\ rpc = "returned"
    /\ \E i, j \in Units : i < j /\ gerr[i] # Nil /\ gerr[j] = Nil /\ ran[j] = 1

\* C2: when the list has a failing step, runParallel returns a non-nil error
\* and it is the error one of the failing steps returned.
C2_FailureReported ==
    (rpc = "returned" /\ \E i \in Units : functions[i] = "fail")
        => /\ rpRet # Nil
           /\ \E i \in Units : /\ functions[i] = "fail"
                               /\ gerr[i] = StubErr(i)
                               /\ rpRet = gerr[i]

\* C2 witness: two steps failed and the error of the later one is returned.
C2_Witness ==
    /\ rpc = "returned"
    /\ \E i, j \in Units : i < j /\ gerr[i] # Nil /\ gerr[j] # Nil /\ rpRet = gerr[j]

\* C3: when every step succeeds runParallel returns nil and every step has
\* run exactly once before it returns; no step ever runs twice; with no
\* steps no unit exists and the loop launches nothing.
C3_AllSucceed ==
    /\ (rpc = "returned" /\ \A i \in 1..Len(functions) : functions[i] = "succeed")
           => /\ rpRet = Nil
              /\ \A i \in 1..Len(functions) : Finished(i)
    /\ \A i \in Units : ran[i] <= 1
    /\ Len(functions) = 0 => Units = {} /\ next = 1 /\ rpc # "launch"

\* C3 witness: runParallel has returned nil from a list of several steps,
\* all of which succeed.
C3_Witness ==
    /\ rpc = "returned"
    /\ Len(functions) >= 2
    /\ \A i \in 1..Len(functions) : functions[i] = "succeed"
    /\ rpRet = Nil

\* C4: the phases of Build are ordered: runParallel is entered, and any step
\* launched or any step's collaborator called, only once the staging
\* directory has been removed and the five directories exist; TarGzip is
\* called only once all eight steps have finished.
C4_PhaseOrder ==
    /\ (\/ rpc # "idle"
        \/ \E i \in Units : gpc[i] # "unlaunched"
        \/ \E c \in StepCollaborators : calls[c] > 0) => Prepared
    /\ (bpc = "archive" \/ calls["TarGzip"] > 0)
           => \A i \in 1..Len(BuildSteps) : Finished(i)

\* C4 witness: the steps interleave freely: the last step of the list has
\* finished while the first has not begun, and the archive is not yet made.
C4_Witness ==
    /\ bpc = "join"
    /\ Units = 1..Len(BuildSteps)
    /\ gpc[Len(BuildSteps)] = "done"
    /\ gpc[1] = "call"

\* C5: when a build step has failed, TarGzip is never called and no archive
\* is produced, and what Build returns is the error runParallel returned,
\* which is the error of a failed step, wrapped with the OS and architecture.
C5_StepFailure ==
    (\E i \in Units : gerr[i] # Nil)
        => /\ calls["TarGzip"] = 0
           /\ ~tarFile
           /\ bpc # "archive"
           /\ bpc = "returned"
                => /\ buildRet # Nil
                   /\ Head(buildRet) = OsArch
                   /\ Tail(buildRet) = rpRet
                   /\ \E i \in Units : gerr[i] # Nil /\ rpRet = gerr[i]

\* C5 witness: the fetch of encore-go failed and Build has returned.
C5_Witness ==
    /\ bpc = "returned"
    /\ << "downloadLatestGithubRelease", Index("downloadEncoreGo") >> \in failed
    /\ d.OS = "linux"
    /\ d.Arch = "amd64"

\* C6: directory preparation fails fast: once the RemoveAll (k = 0) or the
\* k-th MkdirAll has failed, Build has returned an error, no later MkdirAll
\* has been called, runParallel has not been entered, no step has been
\* launched or has called a collaborator, and TarGzip has not been called.
C6_PrepFailsFast ==
    \A k \in 0..Len(PrepDirs) :
        (IF k = 0 THEN << "RemoveAll", 0 >> \in failed ELSE << "MkdirAll", k >> \in failed)
            => /\ bpc = "returned"
               /\ buildRet # Nil
               /\ calls["MkdirAll"] = k
               /\ rpc = "idle"
               /\ Units = {}
               /\ \A c \in StepCollaborators \cup {"TarGzip"} : calls[c] = 0
               /\ ~tarFile

\* C6 witness: the creation of the last directory has failed.
C6_Witness ==
    /\ << "MkdirAll", Len(PrepDirs) >> \in failed
    /\ bpc = "returned"

\* Nothing Build does has failed: no collaborator call, and no build step.
AllSucceeded ==
    /\ failed = {}
    /\ \A i \in 1..Len(BuildSteps) : Finished(i) /\ gerr[i] = Nil

\* C7: Build returns nil exactly when the RemoveAll, the five MkdirAll, the
\* eight steps and TarGzip all succeeded; when it returns nil, TarGzip has
\* been called exactly once, after all eight steps ran.
C7_NilIffAllSucceed ==
    bpc = "returned"
        => /\ (buildRet = Nil) <=> AllSucceeded
           /\ buildRet = Nil
                => /\ calls["TarGzip"] = 1
                   /\ tarFile
                   /\ Prepared
                   /\ \A i \in 1..Len(BuildSteps) : ran[i] = 1

\* C7 witness: Build has returned nil.
C7_Witness ==
    /\ bpc = "returned"
    /\ buildRet = Nil
    /\ tarFile

\* The unit of copyEncoreRuntimeForJS has got past the load of the flag.
JSDecided == J \in Units /\ gpc[J] \notin {"unlaunched", "call", "load"}

\* C8: when the packager has signalled with its failure flag set, the cp into
\* runtimes/js is never started, and copyEncoreRuntimeForJS, once it has
\* loaded the flag, has returned the error "js build failed".
C8_ProducerFailed ==
    jsBuilder.compileFailed
        => /\ calls["cpJS"] = 0
           /\ JSFiles \notin staging
           /\ J \in Units => gpc[J] # "cp"
           /\ JSDecided => /\ ran[J] = 1
                           /\ gerr[J] = New("js build failed")

\* C8 witness: the packager signalled with the flag set and the step returned.
C8_Witness ==
    /\ jsBuilder.compileCompleted
    /\ jsBuilder.compileFailed
    /\ J \in Units
    /\ gpc[J] = "done"
    /\ gerr[J] # Nil

\* C9: when the packager has signalled with its failure flag clear and
\* copyEncoreRuntimeForJS has returned, it has run the cp once, and if the cp
\* succeeded it has returned nil and runtimes/js is populated; the cp is
\* never started, nor the flag loaded, before the signal has been received.
C9_ProducerSucceeded ==
    /\ (J \in Units /\ ran[J] = 1 /\ ~jsBuilder.compileFailed)
           => /\ calls["cpJS"] = 1
              /\ << "cpJS", J >> \notin failed
                   => gerr[J] = Nil /\ JSFiles \in staging
    /\ (calls["cpJS"] > 0 \/ (J \in Units /\ gpc[J] \in {"load", "cp"}))
           => jsBuilder.compileCompleted

\* C9 witness: the flag is clear, the cp has populated runtimes/js and the
\* step has returned nil.
C9_Witness ==
    /\ jsBuilder.compileCompleted
    /\ ~jsBuilder.compileFailed
    /\ J \in Units
    /\ gpc[J] = "done"
    /\ gerr[J] = Nil
    /\ JSFiles \in staging

\* The unit of the step called name is at position pos.
Pending(name, pos) ==
    /\ Index(name) \in Units
    /\ gpc[Index(name)] = pos

\* C10: while the packager has not signalled, in a Build that has entered
\* runParallel, the unit of copyEncoreRuntimeForJS stays at its receive, the
\* wait of runParallel does not end, Build stays in its call of runParallel
\* and TarGzip is not called; each of the seven other steps can take its
\* next move whenever it is inside f(), and a failed unit waits for the
\* mutex only while another unit, which can release it, holds it.
C10_NeverSignalled ==
    (~jsBuilder.compileCompleted /\ rpc # "idle")
        => /\ J \in Units => gpc[J] \in {"unlaunched", "call"} /\ ran[J] = 0
           /\ ~Joined
           /\ bpc = "join"
           /\ calls["TarGzip"] = 0
           /\ ~tarFile
           /\ Pending("buildEncoreCLI", "call") => ENABLED buildEncoreCLI
           /\ Pending("buildTSBundler", "call") => ENABLED buildTSBundler
           /\ Pending("buildGitHook", "call") => ENABLED buildGitHook
           /\ Pending("buildTSParser", "call") => ENABLED buildTSParser
           /\ Pending("buildNodePlugin", "call") => ENABLED buildNodePluginPatch
           /\ Pending("buildNodePlugin", "compile") => ENABLED buildNodePluginCompile
           /\ Pending("copyEncoreRuntimeForGo", "call") => ENABLED copyEncoreRuntimeForGo
           /\ Pending("downloadEncoreGo", "call") => ENABLED downloadEncoreGoFetch
           /\ Pending("downloadEncoreGo", "extract") => ENABLED downloadEncoreGoExtract
           /\ (\E i \in Units : gpc[i] = "failed")
                => (ENABLED UnitLock \/ ENABLED UnitRecord \/ ENABLED UnitUnlockDone)

\* C10 witness: the packager has not signalled, the seven other steps have
\* all finished, and runParallel is still waiting for copyEncoreRuntimeForJS.
C10_Witness ==
    /\ ~jsBuilder.compileCompleted
    /\ rpc = "wait"
    /\ bpc = "join"
    /\ gpc[J] = "call"
    /\ \A i \in Units \ {J} : Finished(i)

\* The suffix demanded for each channel.
C11_Suffix == [GA |-> "", Beta |-> "-beta", Nightly |-> "-nightly", DevBuild |-> "-develop"]

\* The encore binaries that exist under bin/.
EncoreBinaries == { p \in staging : Len(p) = 3 /\ p[1] = "bin" /\ p[2] = "encore" }

\* C11: once buildEncoreCLI has returned: for the channels GA, Beta, Nightly
\* and DevBuild it has called the compiler once and the only binary it can
\* have produced is bin/encore with the suffix "", "-beta", "-nightly",
\* "-develop" respectively (produced whenever it returned nil); for any
\* other channel it has returned the unknown-channel error, the compiler has
\* not been called and no binary exists.  Before it runs no binary exists.
C11_ChannelSuffix ==
    \A i \in Units : functions[i] = "buildEncoreCLI" =>
        /\ ran[i] = 0 => EncoreBinaries = {}
        /\ ran[i] = 1 =>
            LET ch == ChannelFor(d.Version) IN
            IF ch \in DOMAIN C11_Suffix
            THEN /\ calls["CompileGoBinary"] = 1
                 /\ EncoreBinaries \subseteq {<< "bin", "encore", C11_Suffix[ch] >>}
                 /\ gerr[i] = Nil => EncoreBinaries # {}
            ELSE /\ gerr[i] = Newf("unknown version channel for %s", d.Version)
                 /\ calls["CompileGoBinary"] = 0
                 /\ EncoreBinaries = {}

\* C11 witness: a development build has produced bin/encore-develop.
C11_Witness ==
    /\ functions = << "buildEncoreCLI" >>
    /\ Finished(1)
    /\ ChannelFor(d.Version) = "DevBuild"
    /\ << "bin", "encore", "-develop" >> \in staging

\* C12: for an OS other than darwin, linux and windows buildNodePlugin writes
\* no version.cjs, calls no compiler and returns the unknown-OS error; for the
\* three OS values the artifact name it resolves is the .dylib, the .so and
\* the .dll name respectively.
C12_UnknownOS ==
    \A i \in Units : functions[i] = "buildNodePlugin" =>
        /\ d.OS \notin {"darwin", "linux", "windows"} =>
            /\ calls["WriteFile"] = 0
            /\ calls["CompileRustBinary"] = 0
            /\ versionCjs = "checked-in"
            /\ gpc[i] # "compile"
            /\ ran[i] = 1 =>
                 gerr[i] = Wrap(Newf("unknown OS: %s", d.OS), "compile node plugin")
        /\ (d.OS = "darwin" /\ gpc[i] \notin {"unlaunched", "call"})
               => compiledBinaryName = "libencore_js_runtime.dylib"
        /\ (d.OS = "linux" /\ gpc[i] \notin {"unlaunched", "call"})
               => compiledBinaryName = "libencore_js_runtime.so"
        /\ (d.OS = "windows" /\ gpc[i] \notin {"unlaunched", "call"})
               => compiledBinaryName = "encore_js_runtime.dll"

\* C12 witness: buildNodePlugin has returned for the OS plan9.
C12_Witness ==
    /\ functions = << "buildNodePlugin" >>
    /\ d.OS = "plan9"
    /\ Finished(1)
    /\ gerr[1] # Nil

\* What a step that returned nil has written under the staging directory.
Written(name) ==
    CASE name = "buildEncoreCLI"         -> EncoreBinaries
      [] name = "buildTSBundler"         -> {<< "bin", "tsbundler-encore" >>}
      [] name = "buildGitHook"           -> {<< "bin", "git-remote-encore" >>}
      [] name = "buildTSParser"          -> {<< "bin", "tsparser-encore" >>}
      [] name = "buildNodePlugin"        -> {<< "bin", "encore-runtime.node" >>}
      [] name = "copyEncoreRuntimeForGo" -> {<< "runtimes", "go", "." >>}
      [] name = "copyEncoreRuntimeForJS" -> {JSFiles}
      [] name = "downloadEncoreGo"       -> {<< "encore-go" >>}

\* C13: Build does not roll back: once Build has returned an error after
\* entering runParallel (a step or TarGzip failed), the five directories and
\* the output of every step that returned nil are still in the staging
\* directory; nothing is ever removed from the staging directory except by
\* the RemoveAll that is Build's first operation, which precedes every other
\* collaborator call and, when it succeeds, empties the directory whatever
\* an earlier build left in it.
C13_NoRollback ==
    /\ [](  (bpc = "returned" /\ buildRet # Nil /\ rpc # "idle")
              => /\ \A k \in 1..Len(PrepDirs) : PrepDirs[k] \in staging
                 /\ \A i \in Units : (Finished(i) /\ gerr[i] = Nil)
                       => (Written(functions[i]) # {} /\ Written(functions[i]) \subseteq staging))
    /\ [](calls["RemoveAll"] = 0
              => (bpc = "remove" /\ \A c \in Collaborators : calls[c] = 0))
    /\ [][ \/ staging \subseteq staging'
           \/ (bpc = "remove" /\ calls["RemoveAll"] = 0) ]_vars
    /\ [][ (bpc = "remove" /\ bpc' = "mkdir") => staging' = {} ]_vars

\* C13 witness: Build has returned the error of a failed step and the binary
\* another step compiled is still in the staging directory.
C13_Witness ==
    /\ bpc = "returned"
    /\ buildRet # Nil
    /\ << "CompileRustBinary", Index("buildTSParser") >> \in failed
    /\ << "bin", "git-remote-encore" >> \in staging

\* Unit i exists and runs copyEncoreRuntimeForJS.
IsJSUnit(i) == i \in Units /\ functions[i] = "copyEncoreRuntimeForJS"

\* C14: copyEncoreRuntimeForJS loads compileFailed only after its receive on
\* compileCompleted has returned, and the receive returns only once the
\* channel is closed: whenever the unit leaves the position of the load, and
\* whenever it is past the receive, the packager has signalled.
C14_LoadAfterSignal ==
    /\ []( \A i \in Units : (IsJSUnit(i) /\ gpc[i] \notin {"unlaunched", "call"})
                                 => jsBuilder.compileCompleted )
    /\ [][ \A i \in Units : (IsJSUnit(i) /\ gpc[i] = "call" /\ gpc'[i] # "call")
                                 => (jsBuilder.compileCompleted /\ gpc'[i] = "load") ]_vars
    /\ [][ \A i \in Units : (IsJSUnit(i) /\ gpc[i] = "load" /\ gpc'[i] # "load")
                                 => (/\ jsBuilder.compileCompleted
                                     /\ gpc'[i] = IF jsBuilder.compileFailed
                                                  THEN "failed" ELSE "cp") ]_vars

\* C14 witness: the unit has loaded a clear flag, after the signal, and is
\* about to copy.
C14_Witness ==
    /\ functions = << "copyEncoreRuntimeForJS" >>
    /\ gpc = << "cp" >>
    /\ ~jsBuilder.compileFailed

\* The label Build wraps the failure of preparation operation k in.
PrepLabel(k) == IF k = 0 THEN "remove target dir" ELSE PrepLabels[k]

\* Preparation operation k (0 the RemoveAll, k > 0 the k-th MkdirAll) failed.
PrepFailed(k) ==
    IF k = 0 THEN << "RemoveAll", 0 >> \in failed ELSE << "MkdirAll", k >> \in failed

\* C15: the error Build returns when a preparation operation fails carries a
\* label that identifies the operation: it is the label of no other of the
\* six operations.
C15_LabelsDistinct ==
    \A k \in 0..Len(PrepDirs) :
        (PrepFailed(k) /\ bpc = "returned")
            => /\ Head(buildRet) = << PrepLabel(k) >>
               /\ \A other \in 0..Len(PrepDirs) \ {k} :
                      Head(buildRet) # << PrepLabel(other) >>

\* The unit of step i has held the mutex and been through the test of firstErr.
Recorded(i) == gpc[i] = "recorded" \/ (gpc[i] = "done" /\ gerr[i] # Nil)

\* C16: firstErr is write-once and the first failing unit to take the mutex
\* wins: once non-nil it never changes; the unit that finds it nil under the
\* mutex stores its own error, so it is non-nil once any failing unit has been
\* through the mutex, and it is the error of such a unit; runParallel returns
\* it.
C16_FirstRecordedWins ==
    /\ [][ firstErr # Nil => firstErr' = firstErr ]_vars
    /\ [][ \A i \in Units : (gpc[i] = "locked" /\ gpc'[i] = "recorded" /\ firstErr = Nil)
                               => firstErr' = gerr[i] ]_vars
    /\ []( (\E i \in Units : Recorded(i)) <=> firstErr # Nil )
    /\ []( firstErr # Nil => \E i \in Units : Recorded(i) /\ firstErr = gerr[i] )
    /\ []( rpc = "returned" => rpRet = firstErr )

\* C16 witness: three steps failed and runParallel has returned the error of
\* the second, discarding those of the first and the third.
C16_Witness ==
    /\ rpc = "returned"
    /\ Len(functions) = 3
    /\ \A i \in Units : gerr[i] # Nil
    /\ rpRet = gerr[2]

\* Who is between a mu.Lock() and the mu.Unlock() that follows it.
Holders ==
    { i \in Units : gpc[i] \in {"locked", "recorded"} }
        \cup (IF rpc = "locked" THEN {Main} ELSE {})

\* C17: firstErr is read and written only by the holder of the mutex: it
\* changes only in a step of the unit that holds mu, a unit tests it only
\* while holding mu, and runParallel reads it for its return while holding
\* mu; at most one of the units and the caller is ever between Lock and
\* Unlock, and mu names exactly that one.
C17_UnderMutex ==
    /\ [][ firstErr' # firstErr
             => (mu \in Units /\ mu' = mu /\ gpc[mu] = "locked") ]_vars
    /\ [][ \A i \in Units : (gpc[i] = "locked" /\ gpc'[i] # "locked") => mu = i ]_vars
    /\ [][ (rpc # "returned" /\ rpc' = "returned")
             => (mu = Main /\ rpRet' = firstErr) ]_vars
    /\ []( Cardinality(Holders) <= 1 )
    /\ []( Holders = IF mu = 0 THEN {} ELSE {mu} )

\* C17 witness: one failed unit holds the mutex while another waits for it.
C17_Witness ==
    \E i, j \in Units : gpc[i] = "recorded" /\ mu = i /\ gpc[j] = "failed"

\* C18: buildNodePlugin resolves the artifact name, then overwrites
\* version.cjs, then compiles: os.WriteFile is called only with the name
\* resolved; CompileRustBinary is called only after os.WriteFile has been
\* called once and has succeeded, with version.cjs holding d.Version; if
\* os.WriteFile fails the step returns that error, wrapped, and the compiler
\* is not called.
C18_PatchThenCompile ==
    \A i \in Units : functions[i] = "buildNodePlugin" =>
        /\ calls["WriteFile"] > 0 => compiledBinaryName # ""
        /\ (gpc[i] = "compile" \/ calls["CompileRustBinary"] > 0)
               => /\ calls["WriteFile"] = 1
                  /\ << "WriteFile", i >> \notin failed
                  /\ versionCjs = d.Version
                  /\ compiledBinaryName # ""
        /\ << "WriteFile", i >> \in failed
               => /\ calls["CompileRustBinary"] = 0
                  /\ << "bin", "encore-runtime.node" >> \notin staging
                  /\ ran[i] = 1
                  /\ gerr[i] = Wrap(Cause("WriteFile"), "write patch version.cjs")
        /\ calls["CompileRustBinary"] <= 1

\* C18 witness: the plugin has been compiled after version.cjs was rewritten.
C18_Witness ==
    /\ functions = << "buildNodePlugin" >>
    /\ Finished(1)
    /\ gerr[1] = Nil
    /\ versionCjs = d.Version
    /\ << "bin", "encore-runtime.node" >> \in staging

\* C19: when every step returns, runParallel returns: under fair scheduling
\* it eventually returns; until then some step of it can always be taken;
\* the wait-group counter is always the number of launched-or-pending units
\* that have not signalled, it only changes by a unit signalling once as it
\* becomes done, and a unit that is done stays done; when runParallel has
\* returned every unit has signalled, the counter is 0 and the mutex is free.
C19_Terminates ==
    /\ <>(rpc = "returned")
    /\ [](rpc # "returned" => ENABLED NextRP)
    /\ [](rpc # "entry" => wg = Cardinality({ i \in Units : gpc[i] # "done" }))
    /\ [][ (rpc # "entry" /\ wg' # wg)
             => (/\ wg' = wg - 1
                 /\ Cardinality({ i \in Units : gpc[i] # "done" /\ gpc'[i] = "done" }) = 1) ]_vars
    /\ [][ rpc # "entry" => \A i \in Units : gpc[i] = "done" => gpc'[i] = "done" ]_vars
    /\ [](rpc = "returned"
             => /\ wg = 0
                /\ mu = 0
                /\ \A i \in 1..Len(functions) : Finished(i))

\* C19 witness: runParallel has returned from a list of MaxSteps steps in
\* which a failing step follows a succeeding one; the counter is 0 and the
\* mutex is free.
C19_Witness ==
    /\ rpc = "returned"
    /\ wg = 0
    /\ mu = 0
    /\ Len(functions) = MaxSteps
    /\ \E i, j \in Units : i < j /\ gerr[i] = Nil /\ gerr[j] # Nil

\* C20: concurrent builds for different (OS, Arch) are isolated: version.cjs
\* is written by at most one of them, and when a build is about to compile
\* its node plugin version.cjs holds that build's version.
C20_Isolated ==
    /\ Cardinality(stampWriters) <= 1
    /\ \A i \in Units : (functions[i] = "buildNodePlugin" /\ gpc[i] = "compile")
           => versionCjs = d.Version
    /\ peer.pc = "compile" => versionCjs = peer.Version

====
